---- MODULE Spec2Model ----
(***************************************************************************)
(* Model of the insider-trading analyser: the SEC feed ingestion           *)
(* (tools/sec_scraper.py), the chart aggregation routines (main.py,        *)
(* tools/chart_generator.py), alone and in concurrent threads, the         *)
(* sentiment tool (tools/sentiment_analyzer.py), the six-stage flow and    *)
(* its guardrails (flows/insider_trading_flow.py), and the configuration   *)
(* loop of main() (main.py, simplified_main.py).                           *)
(*                                                                         *)
(* Python values are tagged records, so that a mistyped field (a string    *)
(* where a number is expected, None where a string is expected) is a value *)
(* of the model.  A Python str is a sequence of one-character strings, so  *)
(* that upper(), strip(), split() and re.search() are computed.  A Python  *)
(* dict that keeps insertion order is a sequence of [k, v] entries; a raw  *)
(* filing is a function whose DOMAIN is the set of keys it has.            *)
(***************************************************************************)
EXTENDS Integers, Sequences, FiniteSets, TLC

VARIABLES
    (* chart routines *)
    data_24,      \* recent_filings of the 24-hour window (input)
    data_week,    \* recent_filings of the weekly window (input)
    called,       \* the chart routine invoked, "none" before the call
    runs,         \* how many times it has been invoked on this input
    out,          \* what the first invocation returned and drew
    out2,         \* what the second invocation returned and drew
    lib,          \* what the plotting libraries do with labels that are not str
    (* FlowGuardrails.sanitize_company_name *)
    company,      \* the argument
    sanitized,    \* the return value, NotRun before the call
    (* SECInsiderDataScraper.get_recent_insider_filings *)
    response,     \* outcome of requests.get: "raises", "non200", "ok"
    feed,         \* the entries _parse_atom_feed returns
    scraper_pc,   \* "fetch", "loop", "returned"
    idx,          \* index of the next feed entry the loop processes
    insider_filings, \* the list the loop appends to
    returned,     \* the list the method returns, NotRun before
    (* analyze_market_sentiment *)
    companies_json,  \* the argument
    sent_pc,         \* "parse", "collect", "aggregate", "except", "returned"
    sent_companies,  \* the local companies, Unbound before its assignment
    all_sentiment,   \* the mentions the three sources have yielded
    sent_result,     \* what the call returns, or that it raised; NotRun before
    (* concurrent invocations of create_comparison_chart_simple *)
    thread_args,  \* per invocation: its two windows
    thread_pc,    \* per invocation: the next pyplot call it makes
    figs,         \* pyplot's open figures, the current one last
    axes,         \* per invocation: what it has drawn on the axes of its figure
    chart_file,   \* content of reports/simple_comparison_chart.png
    wrote,        \* per invocation: what its plt.savefig wrote
    thread_ret,   \* per invocation: the status it returned
    (* InsiderTradingFlow *)
    flow_pc,      \* "import", "running", "ImportError"; "idle" outside the flow
    flow_state,   \* self.flow_state
    flow_in,      \* per stage: the argument it was started with, NotRun before
    flow_out,     \* per stage: what it returned, NotRun before
    flow_trace,   \* the stages in the order they were started
    (* main() of main.py and of simplified_main.py *)
    main_entry,     \* which of the two scripts runs
    main_pc,        \* "setup", "fetch", "loop", "save", "done"
    sec_data,       \* the local sec_data, Unbound before its assignment
    main_i,         \* the loop's i: the configuration tried next
    main_tried,     \* the configurations tried so far, in order, and what each raised
    main_charts,    \* how often create_chart has been called
    main_result,    \* the local result: the configuration whose crew ran
    report_written, \* reports/final_report.txt has been written
    main_error      \* what the outer except caught, NoneV if nothing

vars == <<data_24, data_week, called, runs, out, out2, lib, company, sanitized,
          response, feed, scraper_pc, idx, insider_filings, returned,
          companies_json, sent_pc, sent_companies, all_sentiment, sent_result,
          thread_args, thread_pc, figs, axes, chart_file, wrote, thread_ret,
          flow_pc, flow_state, flow_in, flow_out, flow_trace,
          main_entry, main_pc, sec_data, main_i, main_tried, main_charts,
          main_result, report_written, main_error>>

chartVars == <<data_24, data_week, called, runs, out, out2, lib>>
sanVars == <<company, sanitized>>
scraperVars == <<response, feed, scraper_pc, idx, insider_filings, returned>>
sentVars == <<companies_json, sent_pc, sent_companies, all_sentiment, sent_result>>
threadVars == <<thread_args, thread_pc, figs, axes, chart_file, wrote, thread_ret>>
flowVars == <<flow_pc, flow_state, flow_in, flow_out, flow_trace>>
mainVars == <<main_entry, main_pc, sec_data, main_i, main_tried, main_charts,
              main_result, report_written, main_error>>

----------------------------------------------------------------------------
(* Bounds of the model. *)
MaxRecords == 2   \* raw filings in the two chart windows together
MaxStr == 11      \* characters of a sanitizer argument
MaxMixed == 2     \* entries of a feed whose entries differ
MaxFeed == 21     \* entries of a feed that repeats one entry
MaxKeys == 11     \* distinct companies of a window that is to be ranked
MaxMentions == 2  \* mentions the sentiment sources yield
NumThreads == 2   \* concurrent invocations of a chart routine

(* Constants of the program. *)
TopN == 10        \* "[:10]  # Top 10"
NameLimit == 10   \* "[:10]  # Limit length and standardize"
FeedLimit == 20   \* "filings[:20]  # Limit to first 20 for demo"
TickerMax == 5    \* "[A-Z]{1,5}"
DetailLimit == 10 \* "all_sentiment[:10],  # Top 10 for brevity"
CompanyLimit == 10 \* "companies[:10]" of the flow's sentiment stage
NumConfigs == 3   \* len(llm_configs_to_try)

----------------------------------------------------------------------------
(* Python values. *)
NoneV == [t |-> "None"]
PyStr(s) == [t |-> "str", s |-> s]
PyInt(n) == [t |-> "int", n |-> n]
PyFloat(c) == [t |-> "float", cents |-> c]
ListV == [t |-> "list"]
NotRun == [t |-> "notrun"]
Unbound == [t |-> "unbound"]

IsStr(v) == v.t = "str"
IsInt(v) == v.t = "int"

Min(a, b) == IF a < b THEN a ELSE b
Range(f) == {f[i] : i \in DOMAIN f}
SeqsUpTo(S, n) == UNION {[1..k -> S] : k \in 0..n}

TakeOneMore(s, n) == SubSeq(s, 1, Min(n + 1, Len(s)))

(* s[:n] *)
Take(s, n) == SubSeq(s, 1, Min(n, Len(s)))

----------------------------------------------------------------------------
(* Characters and str methods. *)
IsSpace(c) == c = " "

(* str.upper() on one character *)
UpperChar(c) ==
    CASE c = "a" -> "A"
      [] c = "b" -> "B"
      [] c = "l" -> "L"
      [] c = "e" -> "E"
      [] c = "s" -> "S"
      [] c = "u" -> "U"
      [] c = "y" -> "Y"
      [] OTHER -> c

(* str.lower() on one character *)
LowerChar(c) ==
    CASE c = "A" -> "a"
      [] c = "B" -> "b"
      [] c = "L" -> "l"
      [] c = "E" -> "e"
      [] c = "S" -> "s"
      [] c = "U" -> "u"
      [] c = "Y" -> "y"
      [] OTHER -> c

Upper(s) == [i \in 1..Len(s) |-> UpperChar(s[i])]
Lower(s) == [i \in 1..Len(s) |-> LowerChar(s[i])]

RECURSIVE LStrip(_)
LStrip(s) == IF s # <<>> /\ IsSpace(Head(s)) THEN LStrip(Tail(s)) ELSE s

RECURSIVE RStrip(_)
RStrip(s) ==
    IF s # <<>> /\ IsSpace(s[Len(s)]) THEN RStrip(SubSeq(s, 1, Len(s) - 1)) ELSE s

(* str.strip() *)
Strip(s) == RStrip(LStrip(s))

S_UNKNOWN == <<"U", "N", "K", "N", "O", "W", "N">>
S_Unknown == <<"U", "n", "k", "n", "o", "w", "n">>
S_Sale == <<"S", "a", "l", "e">>
S_Purchase == <<"P", "u", "r", "c", "h", "a", "s", "e">>
S_sale == <<"s", "a", "l", "e">>
S_buy == <<"b", "u", "y">>
S_bad == <<"b", "a", "d">>
S_ab == <<"a", "b">>
S_AB == <<"A", "B">>

----------------------------------------------------------------------------
(* dict: a sequence of [k, v] entries in insertion order. *)
DictKeys(d) == [i \in 1..Len(d) |-> d[i].k]
DictValues(d) == [i \in 1..Len(d) |-> d[i].v]
DictHas(d, k) == \E i \in 1..Len(d) : d[i].k = k
DictGet(d, k, default) ==
    IF DictHas(d, k) THEN d[CHOOSE i \in 1..Len(d) : d[i].k = k].v ELSE default
DictSet(d, k, v) ==
    IF DictHas(d, k)
    THEN [i \in 1..Len(d) |-> IF d[i].k = k THEN [k |-> k, v |-> v] ELSE d[i]]
    ELSE Append(d, [k |-> k, v |-> v])

(* filing.get(key, default) on a raw filing *)
Get(filing, key, default) == IF key \in DOMAIN filing THEN filing[key] ELSE default

(* a + b: defined on two ints and on two strs, TypeError otherwise *)
TypeError == [t |-> "TypeError"]
Add(a, b) ==
    IF IsInt(a) /\ IsInt(b) THEN PyInt(a.n + b.n)
    ELSE IF IsStr(a) /\ IsStr(b) THEN PyStr(a.s \o b.s)
    ELSE TypeError

----------------------------------------------------------------------------
(* Raw filings handed to the chart routines: loosely typed, any key may be *)
(* absent.                                                                 *)
CompanyVals == {NoneV, PyStr(S_ab), PyStr(S_AB)}
SharesVals == {PyInt(5), PyStr(S_bad)}
TransVals == {PyStr(S_sale), PyStr(S_buy), ListV}

Filing(c, s, x) ==
    [key \in {"company", "shares", "transaction"} |->
        IF key = "company" THEN c ELSE IF key = "shares" THEN s ELSE x]
Without(filing, key) == [j \in DOMAIN filing \ {key} |-> filing[j]]

(* Filings that vary in company and shares, and filings that vary in the   *)
(* transaction label.                                                      *)
VolumeFilings ==
    LET full == {Filing(c, s, PyStr(S_Sale)) : c \in CompanyVals, s \in SharesVals}
    IN  full \cup {Without(f, "company") : f \in full}
             \cup {Without(f, "shares") : f \in full}
LabelFilings ==
    LET full == {Filing(PyStr(S_AB), PyInt(5), x) : x \in TransVals}
    IN  full \cup {Without(Filing(PyStr(S_AB), PyInt(5), NoneV), "transaction")}
RawFilings == VolumeFilings \cup LabelFilings

Windows ==
    {w \in SeqsUpTo(RawFilings, MaxRecords) \X SeqsUpTo(RawFilings, MaxRecords) :
        Len(w[1]) + Len(w[2]) <= MaxRecords}

----------------------------------------------------------------------------
(* Aggregation loops. *)
(* A loop either completes with its value or raises, leaving the value it  *)
(* had built so far.                                                       *)
Fail == [ok |-> FALSE]
Ok(v) == [ok |-> TRUE, v |-> v]
Raised(v) == [ok |-> FALSE, v |-> v]

(* for comp, vol in zip(companies, volumes):                               *)
(*     d[comp] = d.get(comp, 0) + vol                                      *)
RECURSIVE SumByCompany(_, _, _)
SumByCompany(filings, dflt, d) ==
    IF filings = <<>> THEN Ok(d)
    ELSE LET comp == Get(Head(filings), "company", dflt)
             vol == Get(Head(filings), "shares", PyInt(0))
             s == Add(DictGet(d, comp, PyInt(0)), vol)
         IN  IF s.t = "TypeError" THEN Fail
             ELSE SumByCompany(Tail(filings), dflt, DictSet(d, comp, s))

(* if company in company_volumes: company_volumes[company] += shares       *)
(* else: company_volumes[company] = shares                                 *)
RECURSIVE VolumesByCompany(_, _)
VolumesByCompany(filings, d) ==
    IF filings = <<>> THEN Ok(d)
    ELSE LET comp == Get(Head(filings), "company", PyStr(S_UNKNOWN))
             shares == Get(Head(filings), "shares", PyInt(0))
         IN  IF DictHas(d, comp)
             THEN LET s == Add(DictGet(d, comp, PyInt(0)), shares)
                  IN  IF s.t = "TypeError" THEN Raised(d)
                      ELSE VolumesByCompany(Tail(filings), DictSet(d, comp, s))
             ELSE VolumesByCompany(Tail(filings), DictSet(d, comp, shares))

AllStr(seq) == \A i \in 1..Len(seq) : IsStr(seq[i])
AllInt(seq) == \A i \in 1..Len(seq) : IsInt(seq[i])

(* matplotlib and plotly draw a series whose labels are strings; whether   *)
(* they draw or raise on other labels is a fixed property of the installed *)
(* library (lib_raises).                                                   *)
MayRaise(labels, lib_raises) == lib_raises /\ ~AllStr(labels)

(* list(a_set): the iteration order of a set of str depends on the hash    *)
(* seed of the process, so every order of the elements can be produced.    *)
Orders(S) == {p \in [1..Cardinality(S) -> S] : Range(p) = S}

----------------------------------------------------------------------------
(* main.create_chart(sec_data): what it returns, the company_volumes it    *)
(* has aggregated when it returns, and the bars it saves to                *)
(* reports/insider_trading_chart.png.                                      *)
NoBars == [x |-> <<>>, y |-> <<>>]

CreateChartResult(filings, lib_raises) ==
    IF filings = <<>>
    THEN [status |-> "nodata", company_volumes |-> <<>>, bars |-> NoBars]
    ELSE LET agg == VolumesByCompany(filings, <<>>)
             companies == DictKeys(agg.v)
             volumes == DictValues(agg.v)
         IN  \* ax.bar(companies, volumes); f'{volume:,}'; sum(volumes)
             IF ~agg.ok \/ MayRaise(companies, lib_raises) \/ ~AllInt(volumes)
             THEN [status |-> "error", company_volumes |-> agg.v, bars |-> NoBars]
             ELSE [status |-> "ok", company_volumes |-> agg.v,
                   bars |-> [x |-> companies, y |-> volumes]]

(* chart_generator.create_comparison_chart_simple(data_24hr, data_weekly): *)
(* what it returns and the two bar series it saves to                      *)
(* reports/simple_comparison_chart.png.  order is the order in which       *)
(* list(set(...)) yields the companies.                                    *)
NoSeries == [all_companies |-> <<>>, vals_24hr |-> <<>>, vals_week |-> <<>>]

SimpleCompanies(filings_24hr, filings_week) ==
    {Get(filings_24hr[i], "company", PyStr(S_Unknown)) : i \in 1..Len(filings_24hr)}
    \cup {Get(filings_week[i], "company", PyStr(S_Unknown)) : i \in 1..Len(filings_week)}

SimpleResult(filings_24hr, filings_week, order, lib_raises) ==
    LET all_companies == Take(order, TopN)
        vol_24hr_by_company == SumByCompany(filings_24hr, PyStr(S_Unknown), <<>>)
        vol_week_by_company == SumByCompany(filings_week, PyStr(S_Unknown), <<>>)
    IN  IF \/ ~vol_24hr_by_company.ok
           \/ ~vol_week_by_company.ok
           \/ MayRaise(all_companies, lib_raises)
        THEN [status |-> "error", series |-> NoSeries]
        ELSE [status |-> "ok",
              series |->
                [all_companies |-> all_companies,
                 vals_24hr |-> [i \in 1..Len(all_companies) |->
                     DictGet(vol_24hr_by_company.v, all_companies[i], PyInt(0))],
                 vals_week |-> [i \in 1..Len(all_companies) |->
                     DictGet(vol_week_by_company.v, all_companies[i], PyInt(0))]]]

----------------------------------------------------------------------------
(* collections.Counter(labels): counts in first-occurrence order; a label  *)
(* that is not hashable raises TypeError.                                  *)
RECURSIVE CounterSeenOnce(_, _)
CounterSeenOnce(labels, d) ==
    IF labels = <<>> THEN Ok(d)
    ELSE IF Head(labels).t = "list" THEN Fail
    ELSE CounterSeenOnce(Tail(labels), DictSet(d, Head(labels), 1))

RECURSIVE Counter(_, _)
Counter(labels, d) ==
    IF labels = <<>> THEN Ok(d)
    ELSE IF Head(labels).t = "list" THEN Fail
    ELSE Counter(Tail(labels),
                 DictSet(d, Head(labels), DictGet(d, Head(labels), 0) + 1))

Transactions(filings) ==
    [i \in 1..Len(filings) |-> Get(filings[i], "transaction", PyStr(S_Unknown))]

(* sorted(d.items(), key=lambda x: x[1], reverse=True): a stable sort, so  *)
(* entries of equal value keep their insertion order.                      *)
RECURSIVE InsertDescTiesFirst(_, _)
InsertDescTiesFirst(sorted, e) ==
    IF sorted = <<>> THEN <<e>>
    ELSE IF Head(sorted).v.n <= e.v.n THEN <<e>> \o sorted
    ELSE <<Head(sorted)>> \o InsertDescTiesFirst(Tail(sorted), e)

RECURSIVE InsertDesc(_, _)
InsertDesc(sorted, e) ==
    IF sorted = <<>> THEN <<e>>
    ELSE IF Head(sorted).v.n < e.v.n THEN <<e>> \o sorted
    ELSE <<Head(sorted)>> \o InsertDesc(Tail(sorted), e)

RECURSIVE SortedDesc(_, _)
SortedDesc(items, acc) ==
    IF items = <<>> THEN acc
    ELSE SortedDesc(Tail(items), InsertDesc(acc, Head(items)))

(* chart_generator.create_interactive_comparison_chart: the two traces it  *)
(* writes to reports/interactive_comparison.html; an exception is printed  *)
(* and nothing is written.                                                 *)
NoTraces == [written |-> FALSE, top_companies_24hr |-> <<>>, top_companies_week |-> <<>>]

InteractiveResult(filings_24hr, filings_week, lib_raises) ==
    LET companies_24hr == SumByCompany(filings_24hr, PyStr(S_Unknown), <<>>)
        companies_week == SumByCompany(filings_week, PyStr(S_Unknown), <<>>)
    IN  IF ~companies_24hr.ok \/ ~companies_week.ok THEN NoTraces
        ELSE LET top_companies_24hr == Take(SortedDesc(companies_24hr.v, <<>>), TopN)
                 top_companies_week == Take(SortedDesc(companies_week.v, <<>>), TopN)
             IN  IF MayRaise(DictKeys(top_companies_24hr) \o DictKeys(top_companies_week),
                             lib_raises)
                 THEN NoTraces
                 ELSE [written |-> TRUE,
                       top_companies_24hr |-> top_companies_24hr,
                       top_companies_week |-> top_companies_week]

(* chart_generator.create_comparison_chart(data_24hr, data_weekly): what   *)
(* it returns and what it saves: the volume chart, the transaction type    *)
(* chart and the interactive chart.  order is the order in which           *)
(* list(all_transaction_types) yields the labels.                          *)
NoVolume == [saved |-> FALSE, companies |-> <<>>, volumes |-> <<>>,
             companies_w |-> <<>>, volumes_w |-> <<>>]
NoTypes == [saved |-> FALSE, x_labels |-> <<>>, counts_24hr |-> <<>>, counts_week |-> <<>>]

TransactionTypes(filings_24hr, filings_week) ==
    Range(Transactions(filings_24hr)) \cup Range(Transactions(filings_week))

ComparisonResult(filings_24hr, filings_week, order, lib_raises, lib_raises_i) ==
    LET company_vol_24hr == SumByCompany(filings_24hr, PyStr(S_Unknown), <<>>)
        company_vol_week == SumByCompany(filings_week, PyStr(S_Unknown), <<>>)
        failed == [status |-> "error", volume |-> NoVolume, types |-> NoTypes,
                   interactive |-> NoTraces]
    IN  IF ~company_vol_24hr.ok \/ ~company_vol_week.ok THEN failed
        ELSE
        LET companies == Take(DictKeys(company_vol_24hr.v), TopN)
            volumes == [i \in 1..Len(companies) |->
                           DictGet(company_vol_24hr.v, companies[i], PyInt(0))]
            companies_w == Take(DictKeys(company_vol_week.v), TopN)
            volumes_w == [i \in 1..Len(companies_w) |->
                             DictGet(company_vol_week.v, companies_w[i], PyInt(0))]
            volume == [saved |-> TRUE, companies |-> companies, volumes |-> volumes,
                       companies_w |-> companies_w, volumes_w |-> volumes_w]
            trans_count_24hr == Counter(Transactions(filings_24hr), <<>>)
            trans_count_week == Counter(Transactions(filings_week), <<>>)
        IN  IF MayRaise(companies \o companies_w, lib_raises) THEN failed
            ELSE IF ~trans_count_24hr.ok \/ ~trans_count_week.ok
            THEN [failed EXCEPT !.volume = volume]
            ELSE [status |-> "ok",
                  volume |-> volume,
                  types |->
                    [saved |-> TRUE,
                     x_labels |-> order,
                     counts_24hr |-> [i \in 1..Len(order) |->
                         DictGet(trans_count_24hr.v, order[i], 0)],
                     counts_week |-> [i \in 1..Len(order) |->
                         DictGet(trans_count_week.v, order[i], 0)]],
                  interactive |->
                     InteractiveResult(filings_24hr, filings_week, lib_raises_i)]

----------------------------------------------------------------------------
(* The chart routines as actions: a routine is invoked on the two windows, *)
(* and then once more on the same windows.                                 *)
Invoke(fn, result) ==
    /\ runs < 2
    /\ called \in {"none", fn}
    /\ called' = fn
    /\ runs' = runs + 1
    /\ IF runs = 0 THEN out' = result /\ out2' = out2
                   ELSE out2' = result /\ out' = out
    /\ UNCHANGED <<data_24, data_week, lib, sanVars, scraperVars, sentVars, threadVars, flowVars, mainVars>>

create_chart ==
    Invoke("create_chart", CreateChartResult(data_24, lib.matplotlib))

(* Each invocation may run in a process of its own, so the two invocations *)
(* draw their set orders independently.                                    *)
create_comparison_chart_simple ==
    \E order \in Orders(SimpleCompanies(data_24, data_week)) :
        Invoke("create_comparison_chart_simple",
               SimpleResult(data_24, data_week, order, lib.matplotlib))

create_comparison_chart ==
    \E order \in Orders(TransactionTypes(data_24, data_week)) :
        Invoke("create_comparison_chart",
               ComparisonResult(data_24, data_week, order, lib.matplotlib, lib.plotly))

Companies(filings) ==
    [i \in 1..Len(filings) |-> Get(filings[i], "company", PyStr(S_Unknown))]

SanIdle == company = NoneV /\ sanitized = NotRun
ScraperIdle ==
    /\ response = "ok" /\ feed = <<>> /\ scraper_pc = "idle"
    /\ idx = 0 /\ insider_filings = <<>> /\ returned = NotRun
SentIdle ==
    /\ companies_json = NoneV /\ sent_pc = "idle" /\ sent_companies = Unbound
    /\ all_sentiment = <<>> /\ sent_result = NotRun
ThreadsIdle ==
    /\ thread_args = <<>> /\ thread_pc = <<>> /\ figs = <<>> /\ axes = <<>>
    /\ chart_file = NotRun /\ wrote = <<>> /\ thread_ret = <<>>
FlowIdle ==
    /\ flow_pc = "idle" /\ flow_state = NoneV /\ flow_in = <<>>
    /\ flow_out = <<>> /\ flow_trace = <<>>
MainIdle ==
    /\ main_entry = "none" /\ main_pc = "idle" /\ sec_data = Unbound
    /\ main_i = 0 /\ main_tried = <<>> /\ main_charts = 0
    /\ main_result = NotRun /\ report_written = FALSE /\ main_error = NoneV
LibDraws == [matplotlib |-> FALSE, plotly |-> FALSE]
ChartIdle ==
    /\ data_24 = <<>> /\ data_week = <<>> /\ called = "none" /\ runs = 0
    /\ out = NotRun /\ out2 = NotRun /\ lib = LibDraws

InitChart ==
    /\ \E w \in Windows : data_24 = w[1] /\ data_week = w[2]
    /\ called = "none" /\ runs = 0 /\ out = NotRun /\ out2 = NotRun
    /\ lib \in (IF AllStr(Companies(data_24 \o data_week))
                THEN {LibDraws}
                ELSE [matplotlib : BOOLEAN, plotly : BOOLEAN])
    /\ SanIdle /\ ScraperIdle /\ SentIdle /\ ThreadsIdle /\ FlowIdle /\ MainIdle

NextChart ==
    \/ create_chart
    \/ create_comparison_chart_simple
    \/ create_comparison_chart

SpecChart == InitChart /\ [][NextChart]_vars

----------------------------------------------------------------------------
(* FlowGuardrails.sanitize_company_name(company). *)
SanitizeCompanyName(c) ==
    IF ~IsStr(c) \/ c.s = <<>>     \* not company or not isinstance(company, str)
    THEN PyStr(S_UNKNOWN)
    ELSE PyStr(Take(Upper(Strip(c.s)), NameLimit))

SanChars == {" ", "a", "B"}
SanInputs ==
    {NoneV, PyInt(7)} \cup {PyStr(s) : s \in SeqsUpTo(SanChars, MaxStr)}

sanitize_company_name ==
    /\ sanitized = NotRun
    /\ sanitized' = SanitizeCompanyName(company)
    /\ UNCHANGED <<company, chartVars, scraperVars, sentVars, threadVars, flowVars, mainVars>>

InitSanitize ==
    /\ company \in SanInputs
    /\ sanitized = NotRun
    /\ ChartIdle /\ ScraperIdle /\ SentIdle /\ ThreadsIdle /\ FlowIdle /\ MainIdle

NextSanitize == sanitize_company_name

SpecSanitize == InitSanitize /\ [][NextSanitize]_vars

----------------------------------------------------------------------------
(* SECInsiderDataScraper: the feed entries _parse_atom_feed yields, and    *)
(* _extract_insider_details on one entry.                                  *)
UpperAZ == {"A", "B", "C", "D", "E", "F", "G", "H", "I", "J", "K", "L", "M",
            "N", "O", "P", "Q", "R", "S", "T", "U", "V", "W", "X", "Y", "Z"}

(* re.search(r'\(([A-Z]{1,5})\)', title): the match that starts at i       *)
TickerLenAt(s, i) ==
    {n \in 1..TickerMax :
        /\ i + n + 1 <= Len(s)
        /\ s[i] = "("
        /\ \A k \in 1..n : s[i + k] \in UpperAZ
        /\ s[i + n + 1] = ")"}

Ticker(s) ==
    LET starts == {i \in 1..Len(s) : TickerLenAt(s, i) # {}}
    IN  IF starts = {} THEN S_UNKNOWN
        ELSE LET i == CHOOSE m \in starts : \A o \in starts : m <= o
                 n == CHOOSE m \in TickerLenAt(s, i) : TRUE
             IN  SubSeq(s, i + 1, i + n)

(* title.split(' - ')[0]; split never returns an empty list *)
SepAt(s, i) == i + 2 <= Len(s) /\ s[i] = " " /\ s[i + 1] = "-" /\ s[i + 2] = " "
FirstPart(s) ==
    LET seps == {i \in 1..Len(s) : SepAt(s, i)}
    IN  IF seps = {} THEN s
        ELSE SubSeq(s, 1, (CHOOSE m \in seps : \A o \in seps : m <= o) - 1)

S_today == <<"t", "o", "d", "a", "y">>
S_yesterday == <<"y", "e", "s", "t", "e", "r", "d", "a", "y">>
S_updated == <<"2", "0", "2", "4">>
S_url == <<"u", "r", "l">>
S_note == <<"S", "a", "m", "p", "l", "e">>

Truthy(v) == ~(v = NoneV \/ (IsStr(v) /\ v.s = <<>>))

ExtractInsiderDetails(filing) ==
    LET title == Get(filing, "title", PyStr(<<>>))
        url == Get(filing, "url", PyStr(<<>>))
        filing_date == Get(filing, "date", PyStr(<<>>))
    IN  IF ~IsStr(title)    \* re.search raises TypeError: the except branch
        THEN [company |-> PyStr(S_UNKNOWN), insider |-> PyStr(S_Unknown),
              transaction |-> PyStr(S_Unknown), shares |-> PyInt(0),
              price |-> PyFloat(0), date |-> PyStr(S_today),
              filing_url |-> PyStr(<<>>), raw_title |-> PyStr(<<>>),
              error |-> PyStr(<<"T", "y", "p", "e", "E", "r", "r", "o", "r">>)]
        ELSE [company |-> PyStr(Ticker(title.s)),
              insider |-> PyStr(FirstPart(title.s)),
              transaction |-> PyStr(S_Sale), shares |-> PyInt(10000),
              price |-> PyFloat(10000),
              date |-> IF Truthy(filing_date) THEN filing_date ELSE PyStr(S_today),
              filing_url |-> url, raw_title |-> title]

SampleRecordNoShares(c, who, x, n, d, cents) ==
    [company |-> PyStr(c), insider |-> PyStr(who), transaction |-> PyStr(x),
     date |-> PyStr(d), price |-> PyFloat(cents), note |-> PyStr(S_note)]

(* _get_sample_data() *)
SampleRecord(c, who, x, n, d, cents) ==
    [company |-> PyStr(c), insider |-> PyStr(who), transaction |-> PyStr(x),
     shares |-> PyInt(n), date |-> PyStr(d), price |-> PyFloat(cents),
     note |-> PyStr(S_note)]
SampleData ==
    << SampleRecord(<<"A", "A", "P", "L">>, <<"T", "i", "m">>, S_Sale, 50000, S_today, 22550),
       SampleRecord(<<"M", "S", "F", "T">>, <<"S", "a", "t", "y", "a">>, S_Purchase, 25000,
                    S_today, 42075),
       SampleRecord(<<"G", "O", "O", "G", "L">>, <<"S", "u", "n", "d", "a", "r">>, S_Sale,
                    30000, S_yesterday, 16525) >>

OrSampleDataNever(filings) == filings

(* if not insider_filings: return self._get_sample_data() *)
OrSampleData(filings) == IF filings = <<>> THEN SampleData ELSE filings

LimitedOffByOne(filings) == Take(filings, FeedLimit + 1)

(* filings[:20] *)
Limited(filings) == Take(filings, FeedLimit)

(* Feed entries: the title, url and date keys are set only when the entry  *)
(* has the element; an element without text gives None.                    *)
T_full == <<"J", "o", " ", "-", " ", "(", "A", "B", ")">>
T_noticker == <<"J", "o", " ", "-", " ", "(", "a", "b", ")">>
T_noname == <<" ", "-", " ", "(", "A", ")">>
TitleVals == {NoneV, PyStr(T_full), PyStr(T_noticker), PyStr(T_noname)}
DateVals == {NoneV, PyStr(S_updated)}

Entry(title, date) ==
    [key \in {"title", "url", "date"} |->
        IF key = "title" THEN title ELSE IF key = "date" THEN date ELSE PyStr(S_url)]
Entries ==
    LET full == {Entry(tt, d) : tt \in TitleVals, d \in DateVals}
    IN  full \cup {Without(e, "title") : e \in full} \cup {Without(e, "date") : e \in full}

Feeds ==
    SeqsUpTo(Entries, MaxMixed)
    \cup {[i \in 1..n |-> e] : n \in 1..MaxFeed, e \in Entries}

(* get_recent_insider_filings, step by step: the request, one iteration of *)
(* the loop over filings[:20], and the return.                             *)
Request ==
    /\ scraper_pc = "start"
    /\ \/ /\ response = "raises"       \* except: return self._get_sample_data()
          /\ returned' = SampleData
          /\ scraper_pc' = "returned"
          /\ idx' = idx
       \/ /\ response = "non200"
          /\ scraper_pc' = "after"
          /\ UNCHANGED <<returned, idx>>
       \/ /\ response = "ok"
          /\ scraper_pc' = "loop"
          /\ idx' = 1
          /\ returned' = returned
    /\ UNCHANGED <<response, feed, insider_filings, chartVars, sanVars, sentVars, threadVars, flowVars, mainVars>>

ProcessFiling ==
    /\ scraper_pc = "loop"
    /\ idx <= Len(Limited(feed))
    /\ insider_filings' = Append(insider_filings, ExtractInsiderDetails(Limited(feed)[idx]))
    /\ idx' = idx + 1
    /\ UNCHANGED <<response, feed, scraper_pc, returned, chartVars, sanVars, sentVars, threadVars, flowVars, mainVars>>

Return ==
    /\ \/ scraper_pc = "loop" /\ idx > Len(Limited(feed))
       \/ scraper_pc = "after"
    /\ returned' = OrSampleData(insider_filings)
    /\ scraper_pc' = "returned"
    /\ UNCHANGED <<response, feed, idx, insider_filings, chartVars, sanVars, sentVars, threadVars, flowVars, mainVars>>

InitScraper ==
    /\ \/ response \in {"raises", "non200"} /\ feed = <<>>
       \/ response = "ok" /\ feed \in Feeds
    /\ scraper_pc = "start" /\ idx = 0 /\ insider_filings = <<>> /\ returned = NotRun
    /\ ChartIdle /\ SanIdle /\ SentIdle /\ ThreadsIdle /\ FlowIdle /\ MainIdle

NextScraper == Request \/ ProcessFiling \/ Return

SpecScraper == InitScraper /\ [][NextScraper]_vars

----------------------------------------------------------------------------
(* Properties of the ingestion: get_recent_insider_filings. *)
Fetched == scraper_pc = "returned"

(* C1 as stated: the ingestion returns as many records as the feed holds   *)
(* entries, for every feed, the empty one included.                        *)
C1_OutputCountIsInputCount ==
    (Fetched /\ response = "ok") => Len(returned) = Len(feed)

(* C1: a feed of n >= 1 entries gives min(n, 20) records, one for each of  *)
(* its first 20 entries; an empty feed, a failed request and a non-200     *)
(* response give the 3 sample records.                                     *)
C1_OutputCount ==
    Fetched =>
        Len(returned) = IF response = "ok" /\ feed # <<>>
                        THEN Min(Len(feed), FeedLimit)
                        ELSE 3

C1_Witness == Fetched /\ response = "ok" /\ Len(feed) > FeedLimit

RequiredFields == {"company", "insider", "transaction", "shares", "price", "date"}
Absent(entry, key) == key \notin DOMAIN entry \/ entry[key] = NoneV

(* C2: every returned record has the six required fields, none of them     *)
(* None, and a feed entry without title or without date gives the          *)
(* sentinels "UNKNOWN", "Unknown" and the current date.                    *)
C2_FieldsPopulatedWithSentinels ==
    Fetched =>
        /\ \A i \in 1..Len(returned) :
             /\ RequiredFields \subseteq DOMAIN returned[i]
             /\ \A key \in RequiredFields : returned[i][key] # NoneV
        /\ (response = "ok" /\ feed # <<>>) =>
             \A i \in 1..Len(returned) :
                /\ Absent(feed[i], "title") =>
                     /\ returned[i]["company"] = PyStr(S_UNKNOWN)
                     /\ returned[i]["insider"] = PyStr(S_Unknown)
                /\ Absent(feed[i], "date") => returned[i]["date"] = PyStr(S_today)

----------------------------------------------------------------------------
(* Properties of sanitize_company_name. *)

(* C3: the sanitized company is a non-empty upper-case string without      *)
(* leading or trailing whitespace, and it is "UNKNOWN" when the argument   *)
(* is None, not a string, empty or only whitespace.                        *)
C3_CompanyNormalized ==
    sanitized # NotRun =>
        /\ IsStr(sanitized)
        /\ sanitized.s # <<>>
        /\ Upper(sanitized.s) = sanitized.s
        /\ Strip(sanitized.s) = sanitized.s
        /\ (~IsStr(company) \/ Strip(company.s) = <<>>) => sanitized = PyStr(S_UNKNOWN)

----------------------------------------------------------------------------
(* Properties of the chart routines. *)
RECURSIVE SumSeq(_)
SumSeq(seq) == IF seq = <<>> THEN 0 ELSE Head(seq) + SumSeq(Tail(seq))

(* shares as the data model defines it: invalid or missing is 0 *)
NumShares(filing) ==
    LET v == Get(filing, "shares", PyInt(0)) IN IF IsInt(v) THEN v.n ELSE 0

(* company with the sentinel for a missing or non-string value *)
KeyOrSentinel(filing) ==
    LET c == Get(filing, "company", NoneV) IN IF IsStr(c) THEN c ELSE PyStr(S_UNKNOWN)

SharesWhere(filings, P(_)) ==
    SumSeq([i \in 1..Len(filings) |-> IF P(filings[i]) THEN NumShares(filings[i]) ELSE 0])

Malformed(filing) ==
    /\ "company" \in DOMAIN filing /\ filing["company"] = NoneV
    /\ "shares" \in DOMAIN filing /\ ~IsInt(filing["shares"])

Charted == called = "create_chart" /\ runs >= 1

(* C4: in a batch given to create_chart, a record with company None and    *)
(* non-numeric shares is not dropped and aborts nothing: it is counted     *)
(* under "UNKNOWN" with shares 0, and every company of the batch is        *)
(* aggregated with the sum of the valid shares of its records.             *)
C4_MalformedRecordDefaulted ==
    (Charted /\ \E i \in 1..Len(data_24) : Malformed(data_24[i])) =>
        \A i \in 1..Len(data_24) :
            LET SameKey(f) == KeyOrSentinel(f) = KeyOrSentinel(data_24[i])
            IN  /\ DictHas(out.company_volumes, KeyOrSentinel(data_24[i]))
                /\ DictGet(out.company_volumes, KeyOrSentinel(data_24[i]), NoneV)
                      = PyInt(SharesWhere(data_24, SameKey))

(* the transaction type of the data model *)
S_purchase == <<"p", "u", "r", "c", "h", "a", "s", "e">>
S_sell == <<"s", "e", "l", "l">>
TypeOf(label) ==
    IF ~IsStr(label) THEN PyStr(S_Unknown)
    ELSE IF Lower(label.s) \in {S_purchase, S_buy} THEN PyStr(S_Purchase)
    ELSE IF Lower(label.s) \in {S_sale, S_sell} THEN PyStr(S_Sale)
    ELSE PyStr(S_Unknown)

RawLabel(filing) == Get(filing, "transaction", NoneV)
CountWhere(filings, P(_)) ==
    SumSeq([i \in 1..Len(filings) |-> IF P(filings[i]) THEN 1 ELSE 0])

TypesCharted == called = "create_comparison_chart" /\ runs >= 1 /\ out.types.saved

(* C5: the transaction counts create_comparison_chart draws are keyed by   *)
(* Purchase, Sale, Unknown, and each count is the number of filings whose  *)
(* label maps to that type ignoring case.                                  *)
C5_CountsKeyedByNormalizedType ==
    TypesCharted =>
        \A i \in 1..Len(out.types.x_labels) :
            /\ out.types.x_labels[i] \in
                  {PyStr(S_Purchase), PyStr(S_Sale), PyStr(S_Unknown)}
            /\ LET OfType(f) == TypeOf(RawLabel(f)) = out.types.x_labels[i]
               IN  /\ out.types.counts_24hr[i] = CountWhere(data_24, OfType)
                   /\ out.types.counts_week[i] = CountWhere(data_week, OfType)

(* C6: in the company_volumes create_chart aggregates, companies that     *)
(* differ only in letter case share one key, the upper-case one, whose     *)
(* total is the sum over all of them.                                      *)
C6_OneKeyPerCaseFoldedCompany ==
    Charted =>
        \A i \in 1..Len(data_24) :
            LET c == Get(data_24[i], "company", PyStr(S_UNKNOWN))
                SameFolded(f) ==
                    LET c2 == Get(f, "company", PyStr(S_UNKNOWN))
                    IN  IsStr(c2) /\ Upper(c2.s) = Upper(c.s)
            IN  (/\ IsStr(c)
                 /\ \E j \in 1..Len(data_24) :
                      /\ SameFolded(data_24[j])
                      /\ Get(data_24[j], "company", PyStr(S_UNKNOWN)) # c
                 /\ \A j \in 1..Len(data_24) : IsInt(Get(data_24[j], "shares", PyInt(0))))
                => /\ DictHas(out.company_volumes, PyStr(Upper(c.s)))
                   /\ DictGet(out.company_volumes, PyStr(Upper(c.s)), NoneV)
                         = PyInt(SharesWhere(data_24, SameFolded))
                   /\ \A e \in Range(out.company_volumes) :
                         (IsStr(e.k) /\ Upper(e.k.s) = Upper(c.s)) => e.k.s = Upper(c.s)

(* C7: the entities create_chart aggregates conserve the records of its    *)
(* input: every record's key is an entity, no key is twice an entity, and  *)
(* each entity's total is the sum of the shares of exactly the records     *)
(* with its key.                                                           *)
C7_AggregationConserves ==
    Charted =>
        /\ \A i \in 1..Len(data_24) :
             DictHas(out.company_volumes, Get(data_24[i], "company", PyStr(S_UNKNOWN)))
        /\ \A i, j \in 1..Len(out.company_volumes) :
             out.company_volumes[i].k = out.company_volumes[j].k => i = j
        /\ \A e \in Range(out.company_volumes) :
             LET HasKey(f) == Get(f, "company", PyStr(S_UNKNOWN)) = e.k
             IN  e.v = PyInt(SharesWhere(data_24, HasKey))

C9_SameOutputOnSameInput == runs = 2 => out2 = out

----------------------------------------------------------------------------
(* create_comparison_chart_simple as a comparison: data_24hr is the        *)
(* current window, data_weekly the baseline, and the result for the key    *)
(* all_companies[i] is the pair (vals_24hr[i], vals_week[i]).              *)
Compared == called = "create_comparison_chart_simple" /\ runs >= 1

(* Whenever the simple chart is drawn, a company of the weekly window that *)
(* is absent from the 24-hour window is drawn with the 24-hour value 0.    *)
(* (The code computes no percentage from the pair.)                        *)
BaselineOnlyDrawnZero ==
    (Compared /\ out.status = "ok") =>
        \A i \in 1..Len(out.series.all_companies) :
            out.series.all_companies[i] \notin Range(Companies(data_24))
                => out.series.vals_24hr[i] = PyInt(0)

BaselineOnlyDrawn ==
    /\ Compared /\ out.status = "ok"
    /\ \E i \in 1..Len(out.series.all_companies) :
          /\ out.series.all_companies[i] \notin Range(Companies(data_24))
          /\ out.series.vals_week[i].t = "int" /\ out.series.vals_week[i].n > 0

(* C13: for windows whose companies are all strings, the simple           *)
(* comparison has exactly one result for each company of the union of the  *)
(* two windows (none missing, none twice, none cut off), and a company of  *)
(* the 24-hour window only has the weekly value 0.                         *)
C13_OneResultPerUnionKey ==
    (Compared /\ AllStr(Companies(data_24 \o data_week))) =>
        /\ out.status = "ok"
        /\ Range(out.series.all_companies) = SimpleCompanies(data_24, data_week)
        /\ Len(out.series.all_companies)
              = Cardinality(SimpleCompanies(data_24, data_week))
        /\ \A i \in 1..Len(out.series.all_companies) :
              out.series.all_companies[i] \notin Range(Companies(data_week))
                  => out.series.vals_week[i] = PyInt(0)

----------------------------------------------------------------------------
(* Ranking: the two traces create_interactive_comparison_chart writes,     *)
(* each the items of an aggregation sorted by total.                       *)
Ranked ==
    /\ called = "create_comparison_chart" /\ runs >= 1
    /\ out.status = "ok" /\ out.interactive.written

Ord(c) ==
    CASE c = "A" -> 65 [] c = "B" -> 66 [] c = "U" -> 85 [] c = "a" -> 97
      [] c = "b" -> 98 [] c = "k" -> 107 [] c = "n" -> 110 [] c = "o" -> 111
      [] c = "w" -> 119 [] OTHER -> 0

RECURSIVE LexLess(_, _)
LexLess(s1, s2) ==
    IF s2 = <<>> THEN FALSE
    ELSE IF s1 = <<>> THEN TRUE
    ELSE IF Head(s1) = Head(s2) THEN LexLess(Tail(s1), Tail(s2))
    ELSE Ord(Head(s1)) < Ord(Head(s2))

Descending(top) ==
    \A i \in 1..(Len(top) - 1) : top[i].v.n >= top[i + 1].v.n

(* C15: each adjacent pair of a ranked trace is in descending order of     *)
(* total, and two adjacent companies of equal total are in ascending       *)
(* lexical order, whatever the order of the filings.                       *)
C15_TiesByAscendingKey ==
    Ranked =>
        \A top \in {out.interactive.top_companies_24hr,
                    out.interactive.top_companies_week} :
            /\ Descending(top)
            /\ \A i \in 1..(Len(top) - 1) :
                  (/\ top[i].v.n = top[i + 1].v.n
                   /\ IsStr(top[i].k) /\ IsStr(top[i + 1].k))
                  => LexLess(top[i].k.s, top[i + 1].k.s)

(* Index of the first filing of the window that has the company k. *)
FirstOf(filings, k) ==
    CHOOSE i \in 1..Len(filings) :
        /\ Companies(filings)[i] = k
        /\ \A j \in 1..(i - 1) : Companies(filings)[j] # k

InsertionOrderOnTies(filings, top) ==
    /\ Descending(top)
    /\ \A i \in 1..(Len(top) - 1) :
          top[i].v.n = top[i + 1].v.n
              => FirstOf(filings, top[i].k) < FirstOf(filings, top[i + 1].k)

(* C15, as the code has it: each adjacent pair of a ranked trace is in     *)
(* descending order of total, and two adjacent companies of equal total    *)
(* are in the order in which they first occur in the window.               *)
C15_TiesByInsertionOrder ==
    Ranked =>
        /\ InsertionOrderOnTies(data_24, out.interactive.top_companies_24hr)
        /\ InsertionOrderOnTies(data_week, out.interactive.top_companies_week)

(* A ranked trace in which two companies have the same total. *)
C15_Witness ==
    /\ Ranked
    /\ \E i \in 1..(Len(out.interactive.top_companies_24hr) - 1) :
          out.interactive.top_companies_24hr[i].v.n
             = out.interactive.top_companies_24hr[i + 1].v.n

----------------------------------------------------------------------------
(* Windows of more companies than a chart shows: filing i is of the        *)
(* company Tickers[i] and has 5 shares or no shares key; the weekly window *)
(* holds the same filings in reverse order.                                *)
Tickers == <<"A", "B", "C", "D", "E", "F", "G", "H", "I", "J", "K", "L", "M">>
Reverse(s) == [i \in 1..Len(s) |-> s[Len(s) + 1 - i]]
RankWindows ==
    UNION {
        {[i \in 1..n |->
             LET f == Filing(PyStr(<<Tickers[i]>>), PyInt(5), PyStr(S_Sale))
             IN  IF i \in with THEN f ELSE Without(f, "shares")]
         : with \in SUBSET (1..n)}
      : n \in 0..MaxKeys}

InitRank ==
    /\ data_24 \in RankWindows
    /\ data_week = Reverse(data_24)
    /\ called = "none" /\ runs = 0 /\ out = NotRun /\ out2 = NotRun
    /\ lib = LibDraws
    /\ SanIdle /\ ScraperIdle /\ SentIdle /\ ThreadsIdle /\ FlowIdle /\ MainIdle

NextRank == create_comparison_chart

SpecRank == InitRank /\ [][NextRank]_vars

(* The total the window gives the company k. *)
TotalOf(filings, k) ==
    LET HasKey(f) == Get(f, "company", PyStr(S_Unknown)) = k
    IN  SharesWhere(filings, HasKey)

(* keys are the first min(TopN, number of companies) companies of the      *)
(* window in the order before: no company twice, consecutive keys in that *)
(* order, and every company left out after every key.                      *)
IsTopOf(filings, keys, Before(_, _)) ==
    /\ Len(keys) = Min(TopN, Cardinality(Range(Companies(filings))))
    /\ Range(keys) \subseteq Range(Companies(filings))
    /\ \A i \in 1..(Len(keys) - 1) : Before(keys[i], keys[i + 1])
    /\ \A c \in Range(Companies(filings)) \ Range(keys) :
          \A i \in 1..Len(keys) : Before(keys[i], c)

----------------------------------------------------------------------------
(* The ingestion and the chart routines together: the entry points that    *)
(* take or produce a window.                                               *)
InitTools == InitChart \/ InitScraper
NextTools == NextChart \/ NextScraper
SpecTools == InitTools /\ [][NextTools]_vars

EmptyFeedFetched == Fetched /\ response = "ok" /\ feed = <<>>

(* What the chart routines make of empty windows: no error, an empty       *)
(* aggregation, empty rankings, and with only the 24-hour window empty     *)
(* every company of the simple chart has the 24-hour value 0.              *)
EmptyWindowCharted ==
    /\ (runs >= 1 /\ data_24 = <<>> /\ data_week = <<>>) =>
          /\ called = "create_chart" =>
                out = [status |-> "nodata", company_volumes |-> <<>>, bars |-> NoBars]
          /\ called = "create_comparison_chart_simple" =>
                out = [status |-> "ok", series |-> NoSeries]
          /\ called = "create_comparison_chart" =>
                /\ out.status = "ok"
                /\ out.volume.companies = <<>> /\ out.volume.companies_w = <<>>
                /\ out.types.x_labels = <<>>
                /\ out.interactive.top_companies_24hr = <<>>
                /\ out.interactive.top_companies_week = <<>>
    /\ (Compared /\ out.status = "ok" /\ data_24 = <<>>) =>
          /\ Range(out.series.all_companies) = Range(Companies(data_week))
          /\ \A i \in 1..Len(out.series.all_companies) :
                out.series.vals_24hr[i] = PyInt(0)

(* C18: a window with zero records is not an error and stays empty: the    *)
(* ingestion of an empty feed returns no records, and the chart routines   *)
(* aggregate and rank empty windows to nothing.                            *)
C18_EmptyStaysEmpty ==
    /\ EmptyFeedFetched => returned = <<>>
    /\ EmptyWindowCharted

(* C18, as the code has it: the ingestion of an empty feed returns the     *)
(* three sample records; the chart routines aggregate and rank empty       *)
(* windows to nothing, without an error.                                   *)
C18_EmptyFeedSubstituted ==
    /\ EmptyFeedFetched => returned = SampleData /\ Len(returned) = 3
    /\ EmptyWindowCharted

(* An empty feed has been fetched and a chart routine has been invoked on  *)
(* empty windows.                                                          *)
C18_Witness ==
    /\ EmptyFeedFetched
    /\ runs >= 1 /\ data_24 = <<>> /\ data_week = <<>>

----------------------------------------------------------------------------
(* sentiment_analyzer.analyze_market_sentiment(companies_json).            *)
(* More Python values: a list with its items, a dict with its entries, a   *)
(* set of tickers, and a dictionary-like object that is not a dict (a      *)
(* UserDict, a MappingProxyType).                                          *)
PyList(items) == [t |-> "pylist", items |-> items]
PyDict(d) == [t |-> "dict", d |-> d]
SetV == [t |-> "set"]
MappingV == [t |-> "mapping"]

(* json.dumps(v) returns the text of v, or raises TypeError on a value     *)
(* that is not of a JSON type.  The text is modelled by the value it       *)
(* encodes.                                                                *)
RECURSIVE Serializable(_)
Serializable(v) ==
    CASE v.t \in {"None", "str", "int", "float", "list"} -> TRUE
      [] v.t = "pylist" -> \A i \in 1..Len(v.items) : Serializable(v.items[i])
      [] v.t = "dict" ->
            \A i \in 1..Len(v.d) :
                v.d[i].k.t \in {"None", "str", "int", "float"} /\ Serializable(v.d[i].v)
      [] OTHER -> FALSE

S_companies == <<"c", "o", "m", "p", "a", "n", "i", "e", "s">>
S_company == <<"c", "o", "m", "p", "a", "n", "y">>
S_insiders == <<"i", "n", "s", "i", "d", "e", "r", "s">>
J_list == <<"[", "\"", "A", "B", "\"", "]">>
J_dict == <<"{", "\"", "c", "o", "m", "p", "a", "n", "i", "e", "s", "\"", ":", " ">>
             \o J_list \o <<"}">>
J_empty == <<"{", "}">>
J_number == <<"7">>
J_invalid == <<"A", "B">>

(* json.loads(s) on the texts above; a text that is not JSON raises. *)
JsonLoads(s) ==
    CASE s = J_list -> Ok(PyList(<<PyStr(S_AB)>>))
      [] s = J_dict ->
            Ok(PyDict(<<[k |-> PyStr(S_companies), v |-> PyList(<<PyStr(S_AB)>>)]>>))
      [] s = J_empty -> Ok(PyDict(<<>>))
      [] s = J_number -> Ok(PyInt(7))
      [] OTHER -> Fail

(* str(v) of a value that is neither a str, a list nor a dict *)
StrOf(v) ==
    CASE v = PyInt(7) -> <<"7">>
      [] v = NoneV -> <<"N", "o", "n", "e">>
      [] v = SetV -> <<"{", "'", "A", "B", "'", "}">>
      [] OTHER -> <<"{", "'", "c", "o", "m", "p", "a", "n", "y", "'", ":", " ",
                    "'", "A", "B", "'", "}">>

(* Records of a sequence handed to the tool. *)
ItemVals ==
    {PyStr(S_AB),
     PyDict(<<[k |-> PyStr(S_company), v |-> PyStr(S_AB)]>>),
     PyDict(<<[k |-> PyStr(S_company), v |-> PyStr(S_AB)],
              [k |-> PyStr(S_insiders), v |-> SetV]>>),
     MappingV}

SentimentInputs ==
    {PyStr(J_list), PyStr(J_dict), PyStr(J_empty), PyStr(J_number), PyStr(J_invalid)}
    \cup {PyList(items) : items \in SeqsUpTo(ItemVals, MaxRecords)}
    \cup {PyDict(<<[k |-> PyStr(S_companies), v |-> c]>>) :
             c \in {PyList(<<PyStr(S_AB)>>), SetV}}
    \cup {NoneV, PyInt(7), SetV, MappingV}

(* The sources find a mention only if they can upper() every company; a    *)
(* mention carries the label analyze_text_sentiment gave it and its source.*)
CanMention(c) ==
    \/ c = SetV
    \/ c.t = "pylist" /\ c.items # <<>> /\ \A i \in 1..Len(c.items) : IsStr(c.items[i])
MentionVals ==
    [sentiment : {"positive", "negative", "neutral"},
     source : {"financial_news", "twitter", "youtube"}]
Mentions(c) ==
    IF CanMention(c) THEN SeqsUpTo(MentionVals, MaxMentions) ELSE {<<>>}

CountSentiment(all, label) ==
    Cardinality({i \in 1..Len(all) : all[i].sentiment = label})

NoSentimentData(c) ==
    [kind |-> "no_data", companies |-> c, total_mentions |-> 0,
     overall_sentiment |-> "neutral"]

SentimentSummary(c, all) ==
    LET positive_count == CountSentiment(all, "positive")
        negative_count == CountSentiment(all, "negative")
        neutral_count == CountSentiment(all, "neutral")
    IN  [kind |-> "summary", companies |-> c, total_mentions |-> Len(all),
         overall_sentiment |->
            IF positive_count > negative_count THEN "positive"
            ELSE IF negative_count > positive_count THEN "negative"
            ELSE "neutral",
         sentiment_breakdown |->
            [positive |-> positive_count, negative |-> negative_count,
             neutral |-> neutral_count],
         source_breakdown |->
            [src \in {all[i].source : i \in 1..Len(all)} |->
                [label \in {"positive", "negative", "neutral"} |->
                    Cardinality({i \in 1..Len(all) :
                        all[i].source = src /\ all[i].sentiment = label})]],
         detailed_sentiment |-> Take(all, DetailLimit)]

SentimentRaised == [kind |-> "raise"]
SentimentError(c) ==
    [kind |-> "error", companies |-> IF c = Unbound THEN PyList(<<>>) ELSE c]

(* companies = json.loads(companies_json) if isinstance(companies_json,    *)
(* str) else companies_json; a dict gives its 'companies', anything that   *)
(* is not a list becomes [str(companies)].                                 *)
ParseCompanies ==
    /\ sent_pc = "parse"
    /\ LET loaded == IF IsStr(companies_json) THEN JsonLoads(companies_json.s)
                     ELSE Ok(companies_json)
       IN  IF ~loaded.ok
           THEN sent_pc' = "except" /\ sent_companies' = sent_companies
           ELSE /\ sent_pc' = "collect"
                /\ sent_companies' =
                     IF loaded.v.t = "dict"
                     THEN DictGet(loaded.v.d, PyStr(S_companies), PyList(<<>>))
                     ELSE IF loaded.v.t # "pylist"
                     THEN PyList(<<PyStr(StrOf(loaded.v))>>)
                     ELSE loaded.v
    /\ UNCHANGED <<companies_json, all_sentiment, sent_result,
                   chartVars, sanVars, scraperVars, threadVars, flowVars, mainVars>>

(* analyzer = SentimentAnalyzer(), which may raise, and the three sources, *)
(* which catch their own exceptions.                                       *)
CollectSentiment ==
    /\ sent_pc = "collect"
    /\ \/ sent_pc' = "except" /\ all_sentiment' = all_sentiment
       \/ /\ sent_pc' = "aggregate"
          /\ all_sentiment' \in Mentions(sent_companies)
    /\ UNCHANGED <<companies_json, sent_companies, sent_result,
                   chartVars, sanVars, scraperVars, threadVars, flowVars, mainVars>>

(* The aggregation and return json.dumps(...) of the no-data message or of *)
(* the result.                                                             *)
AggregateSentiment ==
    /\ sent_pc = "aggregate"
    /\ IF ~Serializable(sent_companies)
       THEN sent_pc' = "except" /\ sent_result' = sent_result
       ELSE /\ sent_pc' = "returned"
            /\ sent_result' =
                 IF all_sentiment = <<>> THEN NoSentimentData(sent_companies)
                 ELSE SentimentSummary(sent_companies, all_sentiment)
    /\ UNCHANGED <<companies_json, sent_companies, all_sentiment,
                   chartVars, sanVars, scraperVars, threadVars, flowVars, mainVars>>

(* except Exception as e: return json.dumps({'error': ..., 'companies':    *)
(* companies if 'companies' in locals() else [], ...}); a TypeError of     *)
(* this json.dumps leaves the function.                                    *)
ExceptSentiment ==
    /\ sent_pc = "except"
    /\ sent_pc' = "returned"
    /\ sent_result' =
         IF sent_companies # Unbound /\ ~Serializable(sent_companies)
         THEN SentimentRaised
         ELSE SentimentError(sent_companies)
    /\ UNCHANGED <<companies_json, sent_companies, all_sentiment,
                   chartVars, sanVars, scraperVars, threadVars, flowVars, mainVars>>

analyze_market_sentiment ==
    ParseCompanies \/ CollectSentiment \/ AggregateSentiment \/ ExceptSentiment

InitSentiment ==
    /\ companies_json \in SentimentInputs
    /\ sent_pc = "parse" /\ sent_companies = Unbound
    /\ all_sentiment = <<>> /\ sent_result = NotRun
    /\ ChartIdle /\ SanIdle /\ ScraperIdle /\ ThreadsIdle /\ FlowIdle /\ MainIdle

(* The routines that aggregate or compare: the chart routines and the      *)
(* sentiment tool.                                                         *)
InitRoutines == InitChart \/ InitSentiment
NextRoutines == NextChart \/ analyze_market_sentiment
SpecRoutines == InitRoutines /\ [][NextRoutines]_vars

(* C19: whatever records a routine is handed, it returns a value, a result *)
(* or an error value, and no exception leaves it.                          *)
C19_NoExceptionEscapes ==
    /\ runs >= 1 => out.status \in {"ok", "error", "nodata"}
    /\ runs = 2 => out2.status \in {"ok", "error", "nodata"}
    /\ sent_pc = "returned" => sent_result.kind \in {"summary", "no_data", "error"}

----------------------------------------------------------------------------
(* Invocations of create_comparison_chart_simple that run concurrently,    *)
(* each in a thread of its own, one pyplot call at a time.  pyplot keeps   *)
(* the open figures of the process in one list whose last element is the   *)
(* current figure: plt.subplots() appends a figure, plt.tight_layout(),    *)
(* plt.savefig() and plt.close() act on the current figure, whichever      *)
(* invocation made it, and make a blank one if none is open.  A figure is  *)
(* named by the invocation that made it, a blank one by 0.                 *)
Threads == 1..NumThreads

ThreadFilings ==
    {f \in VolumeFilings : Get(f, "company", PyStr(S_Unknown)) # NoneV}
ThreadWindows ==
    {<<<<>>, <<>>>>} \cup {<<<<f>>, <<>>>> : f \in ThreadFilings}
                     \cup {<<<<>>, <<f>>>> : f \in ThreadFilings}

(* What the invocation computes from its own arguments: the aggregation    *)
(* uses locals only.  Its windows hold at most one company, so list(set)   *)
(* has one order.                                                          *)
OwnResult(args) ==
    SimpleResult(args[1], args[2],
                 CHOOSE order \in Orders(SimpleCompanies(args[1], args[2])) : TRUE,
                 FALSE)

Current(open) == open[Len(open)]
Gcf(open) == IF open = <<>> THEN <<0>> ELSE open
DrawnOn(fig) == IF fig = 0 THEN NoSeries ELSE axes[fig]

(* fig, ax = plt.subplots(figsize=(12, 8)) *)
Subplots(i) ==
    /\ thread_pc[i] = "subplots"
    /\ figs' = Append(figs, i)
    /\ thread_pc' = [thread_pc EXCEPT ![i] = "bar"]
    /\ UNCHANGED <<thread_args, axes, chart_file, wrote, thread_ret,
                   chartVars, sanVars, scraperVars, sentVars, flowVars, mainVars>>

(* The aggregation and the ax.bar(...) calls on the invocation's own axes; *)
(* an exception returns the error string and leaves the figure open.       *)
Bar(i) ==
    /\ thread_pc[i] = "bar"
    /\ LET r == OwnResult(thread_args[i])
       IN  IF r.status = "error"
           THEN /\ thread_ret' = [thread_ret EXCEPT ![i] = "error"]
                /\ thread_pc' = [thread_pc EXCEPT ![i] = "done"]
                /\ axes' = axes
           ELSE /\ axes' = [axes EXCEPT ![i] = r.series]
                /\ thread_pc' = [thread_pc EXCEPT ![i] = "tight_layout"]
                /\ thread_ret' = thread_ret
    /\ UNCHANGED <<thread_args, figs, chart_file, wrote,
                   chartVars, sanVars, scraperVars, sentVars, flowVars, mainVars>>

(* plt.tight_layout() *)
TightLayout(i) ==
    /\ thread_pc[i] = "tight_layout"
    /\ figs' = Gcf(figs)
    /\ thread_pc' = [thread_pc EXCEPT ![i] = "savefig"]
    /\ UNCHANGED <<thread_args, axes, chart_file, wrote, thread_ret,
                   chartVars, sanVars, scraperVars, sentVars, flowVars, mainVars>>

(* plt.savefig('reports/simple_comparison_chart.png', ...) *)
Savefig(i) ==
    /\ thread_pc[i] = "savefig"
    /\ figs' = Gcf(figs)
    /\ chart_file' = DrawnOn(Current(Gcf(figs)))
    /\ wrote' = [wrote EXCEPT ![i] = DrawnOn(Current(Gcf(figs)))]
    /\ thread_pc' = [thread_pc EXCEPT ![i] = "close"]
    /\ UNCHANGED <<thread_args, axes, thread_ret,
                   chartVars, sanVars, scraperVars, sentVars, flowVars, mainVars>>

(* plt.close(); return f"Chart created successfully: {chart_path}" *)
Close(i) ==
    /\ thread_pc[i] = "close"
    /\ figs' = IF figs = <<>> THEN figs ELSE SubSeq(figs, 1, Len(figs) - 1)
    /\ thread_ret' = [thread_ret EXCEPT ![i] = "ok"]
    /\ thread_pc' = [thread_pc EXCEPT ![i] = "done"]
    /\ UNCHANGED <<thread_args, axes, chart_file, wrote,
                   chartVars, sanVars, scraperVars, sentVars, flowVars, mainVars>>

InitThreads ==
    /\ thread_args \in [Threads -> ThreadWindows]
    /\ \A i, j \in Threads : i # j => thread_args[i] # thread_args[j]
    /\ thread_pc = [i \in Threads |-> "subplots"]
    /\ figs = <<>>
    /\ axes = [i \in Threads |-> NoSeries]
    /\ chart_file = NotRun
    /\ wrote = [i \in Threads |-> NotRun]
    /\ thread_ret = [i \in Threads |-> NotRun]
    /\ ChartIdle /\ SanIdle /\ ScraperIdle /\ SentIdle /\ FlowIdle /\ MainIdle

NextThreads ==
    \/ \E i \in Threads : Subplots(i)
    \/ \E i \in Threads : Bar(i)
    \/ \E i \in Threads : TightLayout(i)
    \/ \E i \in Threads : Savefig(i)
    \/ \E i \in Threads : Close(i)

SpecThreads == InitThreads /\ [][NextThreads]_vars

(* C20: an invocation that runs concurrently with another one on           *)
(* different windows returns what it returns alone and writes the chart it *)
(* writes alone: the chart of its own windows.                             *)
C20_ConcurrentAsAlone ==
    \A i \in DOMAIN thread_pc :
        thread_pc[i] = "done" =>
            /\ thread_ret[i] = OwnResult(thread_args[i]).status
            /\ thread_ret[i] = "ok" => wrote[i] = OwnResult(thread_args[i]).series

----------------------------------------------------------------------------
(* C25: get_recent_insider_filings returns between 1 and 20 records: for a *)
(* feed with entries, one record for each of its first 20 entries, in feed *)
(* order; the 3 sample records when the request raises, the status is not  *)
(* 200 or the feed has no entries.                                         *)
C25_NeverEmptyAtMostTwenty ==
    Fetched =>
        /\ Len(returned) >= 1 /\ Len(returned) <= FeedLimit
        /\ IF response = "ok" /\ feed # <<>>
           THEN /\ Len(returned) = Min(Len(feed), FeedLimit)
                /\ \A i \in 1..Len(returned) :
                      IF IsStr(Get(feed[i], "title", PyStr(<<>>)))
                      THEN returned[i]["raw_title"] = Get(feed[i], "title", PyStr(<<>>))
                      ELSE "error" \in DOMAIN returned[i]
           ELSE returned = SampleData /\ Len(returned) = 3

(* The request raised and the sample records came back. *)
C25_Witness == Fetched /\ response = "raises" /\ Len(returned) = 3

----------------------------------------------------------------------------
(* tools/sec_scraper.get_live_sec_data: the dataset around the filings.    *)
S_source == <<"S", "E", "C">>
GetLiveSecData(recent_filings, hours_back) ==
    [recent_filings |-> recent_filings, data_source |-> PyStr(S_source),
     timestamp |-> PyStr(S_today), hours_searched |-> PyInt(hours_back)]

(* FlowGuardrails.validate_sec_data and validate_filing *)
ValidateSecData(data) ==
    \A field \in {"recent_filings", "data_source", "timestamp"} : field \in DOMAIN data
ValidateFiling(filing) ==
    \A field \in {"company", "insider", "transaction", "shares"} : field \in DOMAIN filing

(* C30: the dataset get_live_sec_data builds from the returned filings     *)
(* passes validate_sec_data and each of its records passes                 *)
(* validate_filing, whichever path produced the record.                    *)
C30_DatasetValidates ==
    Fetched =>
        /\ ValidateSecData(GetLiveSecData(returned, 24))
        /\ \A i \in 1..Len(returned) : ValidateFiling(returned[i])

(* A dataset that holds a record of the per-filing error path next to a    *)
(* record of the live extraction path.                                     *)
C30_Witness ==
    /\ Fetched /\ response = "ok"
    /\ \E i, j \in 1..Len(returned) :
          "error" \in DOMAIN returned[i] /\ "error" \notin DOMAIN returned[j]

----------------------------------------------------------------------------
(* C29: sanitize_company_name applied to its own result returns that       *)
(* result unchanged.                                                       *)
C29_SanitizeIdempotent ==
    sanitized # NotRun => SanitizeCompanyName(sanitized) = sanitized

----------------------------------------------------------------------------
(* flows/insider_trading_flow.py: InsiderTradingFlow, six stages chained   *)
(* by @start and @listen. A stage's result is a dict, here a function      *)
(* whose DOMAIN is the dict's key set. Every call a stage makes outside    *)
(* the repository's own control (the scraper's construction and request,   *)
(* an agent factory, Crew.kickoff, calling a @tool object, opening the     *)
(* report file) either returns or raises; which is chosen per call.        *)
S1 == "fetch_24hr_data"
S2 == "fetch_weekly_comparison_data"
S3 == "process_and_normalize_data"
S4 == "create_comparative_charts"
S5 == "analyze_market_sentiment"
S6 == "generate_comprehensive_report"
StageOrder == <<S1, S2, S3, S4, S5, S6>>
StageSet == Range(StageOrder)

(* The decorators: the stage whose return starts the given stage. *)
ListensChartsTwice(stage) ==
    CASE stage = S1 -> "start"
      [] stage = S2 -> S1
      [] stage = S3 -> S2
      [] stage = S4 -> S3
      [] stage = S5 -> S4
      [] stage = S6 -> S4

Listens(stage) ==
    CASE stage = S1 -> "start"
      [] stage = S2 -> S1
      [] stage = S3 -> S2
      [] stage = S4 -> S3
      [] stage = S5 -> S4
      [] stage = S6 -> S5

(* self.flow_state as __init__ leaves it *)
InitialFlowState ==
    [start_time |-> PyStr(S_today), data_24hr |-> NoneV, data_weekly |-> NoneV,
     processed_data |-> NoneV, sentiment_data |-> NoneV,
     charts_created |-> <<>>, errors |-> <<>>]

(* What get_live_sec_data can hand a stage: the sample records, or records *)
(* extracted from a feed, two of them of one company.                      *)
FlowRecord == ExtractInsiderDetails(Entry(PyStr(T_full), PyStr(S_updated)))
FlowFilings == {SampleData, <<FlowRecord>>, <<FlowRecord, FlowRecord>>}

S_raw == <<"r", "a", "w">>
Raw == PyStr(S_raw)           \* result.raw of a crew that ran
Now == PyStr(S_today)         \* datetime.now().isoformat()

(* f"{prefix}{str(e)}" and f"Error: {error_msg}" *)
ErrorMsg(prefix, e) == PyStr(<<prefix, e>>)
ErrorText(error_msg) == PyStr(<<"Error: ">> \o error_msg.s)

(* json.dumps(value): the JSON text of the value *)
JsonDumps(value) == [t |-> "str", json |-> value]
IsJsonString(v) == DOMAIN v = {"t", "json"} /\ v.t = "str"

(* The flow engine: a stage starts once the stage it listens to has        *)
(* returned, with that return value as its argument.                       *)
Ready(stage) ==
    /\ flow_pc = "running"
    /\ flow_in[stage] = NotRun
    /\ IF Listens(stage) = "start" THEN TRUE ELSE flow_out[Listens(stage)] # NotRun
Argument(stage) ==
    IF Listens(stage) = "start" THEN NoneV ELSE flow_out[Listens(stage)]

Returns(stage, result, state) ==
    /\ flow_in' = [flow_in EXCEPT ![stage] = Argument(stage)]
    /\ flow_out' = [flow_out EXCEPT ![stage] = result]
    /\ flow_trace' = Append(flow_trace, stage)
    /\ flow_state' = state
    /\ UNCHANGED <<flow_pc, chartVars, sanVars, scraperVars, sentVars, threadVars, mainVars>>

WithErrorDropped(state, error_msg) == state

(* self.flow_state['errors'].append(error_msg) *)
WithError(state, error_msg) == [state EXCEPT !.errors = Append(@, error_msg)]

(* run_insider_trading_analysis: the module is imported, the flow is       *)
(* constructed and kicked off. The class body evaluates the annotation     *)
(* List[str] although List is not imported, and the module opens its log   *)
(* file under reports/ before that directory is made: the import raises    *)
(* unless annotations are evaluated lazily and the directory exists.       *)
run_insider_trading_analysis ==
    /\ flow_pc = "import"
    /\ \/ flow_pc' = "ImportError" /\ UNCHANGED flow_state
       \/ flow_pc' = "running" /\ flow_state' = InitialFlowState
    /\ UNCHANGED <<flow_in, flow_out, flow_trace,
                   chartVars, sanVars, scraperVars, sentVars, threadVars, mainVars>>

(* Step 1 *)
fetch_24hr_data ==
    /\ Ready(S1)
    /\ LET Except(state, e) ==
               LET error_msg == ErrorMsg("Error in 24hr data fetch: ", e)
               IN  Returns(S1, [raw_data |-> NoneV, analysis |-> ErrorText(error_msg),
                                status |-> "error", timestamp |-> Now],
                           WithError(state, error_msg))
       IN  \/ Except(flow_state, "get_live_sec_data")
           \/ \E filings \in FlowFilings :
                 LET data_24hr == GetLiveSecData(filings, 24)
                     state == [flow_state EXCEPT !.data_24hr = data_24hr]
                 IN  \/ Except(state, "crew")
                     \/ Returns(S1, [raw_data |-> data_24hr, analysis |-> Raw,
                                     status |-> "success", timestamp |-> Now], state)

(* Step 2 *)
fetch_weekly_comparison_data ==
    /\ Ready(S2)
    /\ LET data_24hr_result == Argument(S2)
           Except(state, e) ==
               LET error_msg == ErrorMsg("Error in weekly data fetch: ", e)
               IN  Returns(S2, [raw_data_24hr |-> Get(data_24hr_result, "raw_data", NoneV),
                                raw_data_weekly |-> NoneV,
                                analysis_24hr |-> Get(data_24hr_result, "analysis", NoneV),
                                analysis_weekly |-> ErrorText(error_msg),
                                status |-> "error", timestamp |-> Now],
                           WithError(state, error_msg))
       IN  \/ Except(flow_state, "get_live_sec_data")
           \/ \E filings \in FlowFilings :
                 LET data_weekly == GetLiveSecData(filings, 168)
                     state == [flow_state EXCEPT !.data_weekly = data_weekly]
                 IN  \/ Except(state, "crew")
                     \/ Returns(S2, [raw_data_24hr |-> data_24hr_result["raw_data"],
                                     raw_data_weekly |-> data_weekly,
                                     analysis_24hr |-> data_24hr_result["analysis"],
                                     analysis_weekly |-> Raw,
                                     status |-> "success", timestamp |-> Now], state)


(* Step 3 *)
process_and_normalize_data ==
    /\ Ready(S3)
    /\ LET comparison_data == Argument(S3)
           error_msg == ErrorMsg("Error in data processing: ", "crew")
           processed_result ==
               [processed_analysis |-> Raw,
                raw_data_24hr |-> Get(comparison_data, "raw_data_24hr", NoneV),
                raw_data_weekly |-> Get(comparison_data, "raw_data_weekly", NoneV),
                analysis_24hr |-> Get(comparison_data, "analysis_24hr", NoneV),
                analysis_weekly |-> Get(comparison_data, "analysis_weekly", NoneV),
                status |-> "success", timestamp |-> Now]
       IN  \/ Returns(S3, [processed_analysis |-> ErrorText(error_msg),
                           status |-> "error", timestamp |-> Now],
                      WithError(flow_state, error_msg))
           \/ Returns(S3, processed_result,
                      [flow_state EXCEPT !.processed_data = processed_result])

(* What a chart tool returns: the path it wrote, or the text of the error  *)
(* it caught.                                                              *)
ChartToolReturns == {PyStr(<<"chart created">>), PyStr(<<"Error creating chart">>)}

EitherDataset(processed_data) ==
    \/ Get(processed_data, "raw_data_24hr", NoneV) # NoneV
    \/ Get(processed_data, "raw_data_weekly", NoneV) # NoneV

(* processed_data.get('raw_data_24hr') and processed_data.get('raw_data_weekly'): *)
(* a dataset is a dict of four keys, hence truthy; None and a missing key   *)
(* are falsy.                                                              *)
BothDatasets(processed_data) ==
    /\ Get(processed_data, "raw_data_24hr", NoneV) # NoneV
    /\ Get(processed_data, "raw_data_weekly", NoneV) # NoneV

(* Step 4 *)
create_comparative_charts ==
    /\ Ready(S4)
    /\ LET processed_data == Argument(S4)
           Except(e) ==
               LET error_msg == ErrorMsg("Error in chart creation: ", e)
               IN  Returns(S4, [chart_results |-> <<>>,
                                chart_interpretation |-> ErrorText(error_msg),
                                processed_data |-> processed_data,
                                status |-> "error", timestamp |-> Now],
                           WithError(flow_state, error_msg))
           Charted4(chart_results) ==
               \/ Except("crew")
               \/ Returns(S4, [chart_results |-> chart_results,
                               chart_interpretation |-> Raw,
                               processed_data |-> processed_data,
                               status |-> "success", timestamp |-> Now],
                          [flow_state EXCEPT !.charts_created = chart_results])
       IN  IF BothDatasets(processed_data)
           THEN \/ Except("tool")
                \/ \E chart_result, interactive_result \in ChartToolReturns :
                      Charted4(<<chart_result, interactive_result>>)
           ELSE Charted4(<<>>)

(* The loop of step 5: the truthy companies of the filings, each once, in  *)
(* order of first appearance.                                              *)
RECURSIVE CompaniesOnce(_, _)
CompaniesOnce(filings, companies) ==
    IF filings = <<>> THEN companies
    ELSE LET c == Get(Head(filings), "company", PyStr(<<>>))
         IN  CompaniesOnce(Tail(filings),
                           IF Truthy(c) /\ c \notin Range(companies)
                           THEN Append(companies, c) ELSE companies)

EmptyDict == <<>>
SentimentToolReturns == PyStr(<<"sentiment">>)

(* Step 5. The stage and the tool it calls have one name in the source;    *)
(* the tool is the action analyze_market_sentiment above.                  *)
flow_analyze_market_sentiment ==
    /\ Ready(S5)
    /\ LET chart_data == Argument(S5)
           raw_data == Get(Get(chart_data, "processed_data", EmptyDict),
                           "raw_data_24hr", EmptyDict)
           Except(e) ==
               LET error_msg == ErrorMsg("Error in sentiment analysis: ", e)
               IN  Returns(S5, [companies_analyzed |-> <<>>,
                                sentiment_results |-> ErrorText(error_msg),
                                sentiment_analysis |-> ErrorText(error_msg),
                                chart_data |-> chart_data,
                                status |-> "error", timestamp |-> Now],
                           WithError(flow_state, error_msg))
       IN  IF raw_data = NoneV
           THEN Except("AttributeError")       \* None.get('recent_filings', [])
           ELSE LET filings == Get(raw_data, "recent_filings", <<>>)
                    companies == Take(CompaniesOnce(filings, <<>>), CompanyLimit)
                    sentiment_data ==
                        [companies_analyzed |-> companies,
                         sentiment_results |-> SentimentToolReturns,
                         social_content |-> SentimentToolReturns,
                         sentiment_analysis |-> Raw,
                         chart_data |-> chart_data,
                         status |-> "success", timestamp |-> Now]
                IN  \/ Except("tool")
                    \/ Except("crew")
                    \/ Returns(S5, sentiment_data,
                               [flow_state EXCEPT !.sentiment_data = sentiment_data])

ExecutionSummarySuccess(state) ==
    [start_time |-> state.start_time, end_time |-> Now,
     errors_count |-> Len(state.errors),
     charts_created |-> Len(state.charts_created),
     status |-> "success"]

(* all_data['execution_summary'] *)
ExecutionSummary(state) ==
    [start_time |-> state.start_time, end_time |-> Now,
     errors_count |-> Len(state.errors),
     charts_created |-> Len(state.charts_created),
     status |-> IF state.errors = <<>> THEN "success" ELSE "completed_with_errors"]

(* Step 6 *)
generate_comprehensive_report ==
    /\ Ready(S6)
    /\ LET Except(e) ==
               LET error_msg == ErrorMsg("Error in report generation: ", e)
               IN  Returns(S6, JsonDumps([report |-> PyStr(<<"Error generating report: ">>
                                                           \o error_msg.s),
                                          status |-> "error", timestamp |-> Now]),
                           WithError(flow_state, error_msg))
           final_result ==
               [report |-> Raw, report_file |-> PyStr(<<"reports/", S_today>>),
                flow_summary |-> ExecutionSummary(flow_state), status |-> "completed"]
       IN  \/ Except("create_report_agent")
           \/ Except("crew")
           \/ Except("open")
           \/ Returns(S6, JsonDumps(final_result), flow_state)

InitFlow ==
    /\ flow_pc = "import" /\ flow_state = NoneV
    /\ flow_in = [s \in StageSet |-> NotRun]
    /\ flow_out = [s \in StageSet |-> NotRun]
    /\ flow_trace = <<>>
    /\ ChartIdle /\ SanIdle /\ ScraperIdle /\ SentIdle /\ ThreadsIdle /\ MainIdle

NextFlow ==
    \/ run_insider_trading_analysis
    \/ fetch_24hr_data
    \/ fetch_weekly_comparison_data
    \/ process_and_normalize_data
    \/ create_comparative_charts
    \/ flow_analyze_market_sentiment
    \/ generate_comprehensive_report

SpecFlow == InitFlow /\ [][NextFlow]_vars

(* flow.kickoff() drives the chain: a stage that can start does start, and *)
(* each call a stage makes returns or raises.                              *)
FairFlow == WF_vars(NextFlow)
SpecFlowFair == SpecFlow /\ FairFlow


----------------------------------------------------------------------------
(* Properties of the flow. *)
Returned(s) == flow_pc = "running" /\ flow_out[s] # NotRun
StatusOf(s) == IF s = S6 THEN flow_out[s].json.status ELSE flow_out[s].status
FailedStage(s) == Returned(s) /\ StatusOf(s) = "error"
FailedStages == {s \in StageSet : FailedStage(s)}

(* The field of a stage's result that carries the text of its error. *)
MessageOf(s) ==
    CASE s = S1 -> flow_out[s].analysis
      [] s = S2 -> flow_out[s].analysis_weekly
      [] s = S3 -> flow_out[s].processed_analysis
      [] s = S4 -> flow_out[s].chart_interpretation
      [] s = S5 -> flow_out[s].sentiment_analysis
      [] s = S6 -> flow_out[s].json.report

(* C21: the stages start in the order fetch 24h, weekly, normalize, chart, *)
(* sentiment, report, none twice; a stage starts only when the one before  *)
(* it has returned and is handed that return value; and a run that has     *)
(* been kicked off starts all six.                                         *)
C21_StagesInOrderOnce ==
    /\ [](flow_trace = Take(StageOrder, Len(flow_trace)))
    /\ [][\A k \in 2..Len(StageOrder) :
             (flow_in[StageOrder[k]] = NotRun /\ flow_in'[StageOrder[k]] # NotRun)
             => /\ flow_out[StageOrder[k - 1]] # NotRun
                /\ flow_in'[StageOrder[k]] = flow_out[StageOrder[k - 1]]]_vars
    /\ (flow_pc = "running") ~> (flow_trace = StageOrder)

(* All six stages have run, each on the result of the one before. *)
C21_Witness ==
    /\ flow_trace = StageOrder
    /\ \A k \in 2..Len(StageOrder) : flow_in[StageOrder[k]] = flow_out[StageOrder[k - 1]]

(* C22: a stage that fails has appended its message to the errors and has  *)
(* returned status 'error' with the text of that message; after a failure  *)
(* every stage still runs; the report stage is reached in every run that   *)
(* was kicked off, and what it returns is a JSON string.                   *)
C22_FailureNeverAborts ==
    /\ [](\A s \in StageSet :
             FailedStage(s) =>
                \E i \in 1..Len(flow_state.errors) :
                   MessageOf(s) \in {ErrorText(flow_state.errors[i]),
                                     PyStr(<<"Error generating report: ">>
                                           \o flow_state.errors[i].s)})
    /\ [](Returned(S6) => IsJsonString(flow_out[S6]))
    /\ \A s \in StageSet : FailedStage(s) ~> (flow_trace = StageOrder)
    /\ (flow_pc = "running") ~> Returned(S6)

(* The first stage failed and the report stage still completed. *)
C22_Witness ==
    /\ FailedStage(S1)
    /\ Returned(S6) /\ IsJsonString(flow_out[S6]) /\ StatusOf(S6) = "completed"

(* s is a prefix of u *)
IsPrefix(s, u) == Len(s) <= Len(u) /\ s = SubSeq(u, 1, Len(s))

(* C27: the errors only grow, by at most one entry per stage; their number *)
(* is the number of stages that have returned status 'error'; and the      *)
(* execution summary of a completed report says 'success' exactly when no  *)
(* stage before it failed, 'completed_with_errors' otherwise, with         *)
(* errors_count the number of errors.                                      *)
C27_ErrorsCountFailedStages ==
    /\ [](flow_pc = "running" => Len(flow_state.errors) = Cardinality(FailedStages))
    /\ [][flow_pc = "running" =>
             /\ IsPrefix(flow_state.errors, flow_state'.errors)
             /\ Len(flow_state'.errors) <= Len(flow_state.errors) + 1]_vars
    /\ [](Returned(S6) /\ StatusOf(S6) = "completed" =>
             LET summary == flow_out[S6].json.flow_summary
             IN  /\ summary.errors_count = Len(flow_state.errors)
                 /\ summary.errors_count = Cardinality(FailedStages)
                 /\ summary.status = "success" <=> FailedStages = {}
                 /\ summary.status = "completed_with_errors" <=> FailedStages # {})

(* A completed report after exactly two failed stages. *)
C27_Witness ==
    /\ Returned(S6) /\ StatusOf(S6) = "completed"
    /\ Cardinality(FailedStages) = 2
    /\ flow_out[S6].json.flow_summary.status = "completed_with_errors"

(* The 24-hour fetch stage failed, and no call that a later stage made     *)
(* outside the repository raised: a later error, if any, is the stage's    *)
(* own AttributeError.                                                     *)
Only24hrFailed ==
    /\ FailedStage(S1)
    /\ \A i \in 2..Len(flow_state.errors) : flow_state.errors[i].s[2] = "AttributeError"

(* C28: when only the 24-hour fetch failed, the chart stage returns no     *)
(* chart and the sentiment stage returns status 'error'; and in any run    *)
(* the chart stage returns charts only if both raw datasets reached it.    *)
C28_NoChartsWithout24hr ==
    /\ Only24hrFailed
       => /\ Returned(S4) => /\ flow_out[S4].chart_results = <<>>
                             /\ flow_state.charts_created = <<>>
          /\ Returned(S5) => FailedStage(S5)
    /\ Returned(S4) /\ flow_out[S4].chart_results # <<>>
       => /\ Get(flow_in[S4], "raw_data_24hr", NoneV) # NoneV
          /\ Get(flow_in[S4], "raw_data_weekly", NoneV) # NoneV

(* The 24-hour fetch failed, everything after it was given to succeed, and *)
(* the sentiment stage has returned.                                       *)
C28_Witness ==
    /\ Only24hrFailed /\ Returned(S5)
    /\ ~FailedStage(S2) /\ ~FailedStage(S3) /\ ~FailedStage(S4)
    /\ flow_state.errors[Len(flow_state.errors)].s[2] = "AttributeError"


----------------------------------------------------------------------------
(* main() of main.py and of simplified_main.py: the environment check, the *)
(* data fetch (main.py only), the loop over llm_configs_to_try and the     *)
(* writing of reports/final_report.txt. The configurations are known by    *)
(* their position in the list.                                             *)
MainEntries == {"main", "simplified_main"}

(* result = crew.kickoff(), of the crew built with configuration i *)
CrewOutput(i) == [t |-> "CrewOutput", config |-> i]

(* "if i == len(llm_configs_to_try)" *)
ExhaustedConfigsNever(i) == FALSE

ExhaustedConfigs(i) == i = NumConfigs

MainStep(pc) ==
    /\ main_pc' = pc
    /\ UNCHANGED <<main_entry, chartVars, sanVars, scraperVars, sentVars, threadVars,
                   flowVars>>

(* if not setup_environment(): return *)
setup_environment ==
    /\ main_pc = "setup"
    /\ \/ MainStep("done")           \* GROQ_API_KEY missing or not 'gsk_...'
       \/ MainStep(IF main_entry = "main" THEN "fetch" ELSE "loop")
    /\ UNCHANGED <<sec_data, main_i, main_tried, main_charts, main_result,
                   report_written, main_error>>

(* sec_data = get_live_sec_data(24), inside the outer try *)
FetchSecData ==
    /\ main_pc = "fetch"
    /\ \/ /\ MainStep("done")
          /\ main_error' = PyStr(<<"get_live_sec_data">>)
          /\ UNCHANGED sec_data
       \/ /\ MainStep("loop")
          /\ \E filings \in FlowFilings : sec_data' = GetLiveSecData(filings, 24)
          /\ UNCHANGED main_error
    /\ UNCHANGED <<main_i, main_tried, main_charts, main_result, report_written>>

(* One iteration of "for i, llm_config in enumerate(llm_configs_to_try, 1)": *)
(* an Agent(...) raises before the chart is made, or the chart is made and *)
(* a Task, the Crew or crew.kickoff() raises, or the crew runs and the     *)
(* loop is left by break.                                                  *)
TryLlmConfig ==
    /\ main_pc = "loop"
    /\ LET Tried(config_error) ==
               main_tried' = Append(main_tried, [config |-> main_i, raised |-> config_error])
           Except ==
               IF ExhaustedConfigs(main_i)
               THEN /\ MainStep("done")
                    /\ main_error' = PyStr(<<"All LLM configurations failed">>)
                    /\ UNCHANGED <<main_i, main_result>>
               ELSE /\ MainStep(IF main_i = NumConfigs THEN "save" ELSE "loop")
                    /\ main_i' = main_i + 1
                    /\ UNCHANGED <<main_error, main_result>>
       IN  \/ Except /\ Tried("Agent") /\ UNCHANGED main_charts
           \/ Except /\ Tried("kickoff") /\ main_charts' = main_charts + 1
           \/ /\ MainStep("save")
              /\ Tried("none")
              /\ main_charts' = main_charts + 1
              /\ main_result' = CrewOutput(main_i)
              /\ UNCHANGED <<main_i, main_error>>
    /\ UNCHANGED <<sec_data, report_written>>

(* "# Save results": the report file is opened and written; str(result)    *)
(* raises if the loop came to its end with result unassigned.              *)
SaveResults ==
    /\ main_pc = "save"
    /\ MainStep("done")
    /\ report_written' = TRUE
    /\ main_error' = IF main_result = NotRun THEN PyStr(<<"UnboundLocalError">>)
                     ELSE main_error
    /\ UNCHANGED <<sec_data, main_i, main_tried, main_charts, main_result>>

InitMain ==
    /\ main_entry \in MainEntries
    /\ main_pc = "setup" /\ sec_data = Unbound
    /\ main_i = 1 /\ main_tried = <<>> /\ main_charts = 0
    /\ main_result = NotRun /\ report_written = FALSE /\ main_error = NoneV
    /\ ChartIdle /\ SanIdle /\ ScraperIdle /\ SentIdle /\ ThreadsIdle /\ FlowIdle

NextMain ==
    \/ setup_environment
    \/ FetchSecData
    \/ TryLlmConfig
    \/ SaveResults

SpecMain == InitMain /\ [][NextMain]_vars

====
